---- MODULE Spec2Model ----
(***************************************************************************)
(* Recipe schema builder of anemoi-datasets (src/anemoi/datasets/schema.py) *)
(* init() composes the discriminated unions of the recipe's "input" from    *)
(* the step registry; validate() parses a configuration document against    *)
(* the composed schema; expand() returns its argument.                      *)
(*                                                                          *)
(* A configuration document is a record of its top-level sections.  Every   *)
(* section is a set of <<key, value>> pairs; a value is the string given,   *)
(* or BAD for a value its field cannot parse.  A step object is the         *)
(* sequence of its entries in the order of the mapping's keys.              *)
(***************************************************************************)
EXTENDS Integers, Sequences, FiniteSets, TLC

VARIABLES registry, op, config, schema_flag, returned, out, reads, retdoc,
          dates_variant, input_variant, calls

vars ==
    <<registry, op, config, schema_flag, returned, out, reads, retdoc,
      dates_variant, input_variant, calls>>

\* ------------------------------------------------------------------ bounds

\* deepest nesting of combinators in an enumerated "input" step
MaxDepth == 2
\* longest list enumerated under a combinator
MaxLen == 2

\* ------------------------------------------------------------ the registry

\* The step definitions that can be registered: two sources (one with a
\* declared input shape, one with none) and one filter.  The registry is the
\* set of those registered now; it lists the sources and filters of the
\* package, is never empty, and gives no name to both a source and a filter.
Plugins ==
    { [cat |-> "sources", name |-> "s1", schema |-> "declared"],
      [cat |-> "sources", name |-> "s2", schema |-> "None"],
      [cat |-> "filters", name |-> "f1", schema |-> "declared"] }

PluginOrder ==
    << [cat |-> "sources", name |-> "s1", schema |-> "declared"],
       [cat |-> "sources", name |-> "s2", schema |-> "None"],
       [cat |-> "filters", name |-> "f1", schema |-> "declared"] >>

\* function_schemas(category): the registered (name, schema) pairs of a category
function_schemas(reg, category) ==
    SelectSeq(PluginOrder, LAMBDA p : p \in reg /\ p.cat = category)

\* ------------------------------------------------------------------ init()

\* (mutant) a variant that drops the declared shape
StepVariant_AnyMapping(p) == [tag |-> p.name, model |-> "dict"]

\* one tagged variant per registered name: create_model(name, name=(schema, ...)),
\* a missing schema replaced by dict
StepVariant(p) ==
    [tag |-> p.name, model |-> IF p.schema = "None" THEN "dict" ELSE p.schema]

Variants(ps) == [i \in 1..Len(ps) |-> StepVariant(ps[i])]

\* the categories init() reads, in the order it reads them
init_reads == <<"sources", "filters">>

\* `union` after the two loops over the registry
simple_union(reg) ==
    Variants(function_schemas(reg, init_reads[1])) \o Variants(function_schemas(reg, init_reads[2]))

PipeTag == [tag |-> "pipe", model |-> "Pipe"]
DatesTag == [tag |-> "dates", model |-> "Dates"]
ConcatTag == [tag |-> "concat", model |-> "Concat"]
JoinTag == [tag |-> "join", model |-> "Join"]

\* (mutant) Pipe declared over simple_steps_and_pipe: pipes nest
init_NestedPipes(reg) ==
    LET union == simple_union(reg)
        union2 == union \o <<PipeTag, DatesTag>>
    IN  [ simple_steps |-> union,
          simple_steps_and_pipe |-> union \o <<PipeTag>>,
          simple_steps_and_dates |-> union2 \o <<DatesTag>>,
          input |-> union2 \o <<ConcatTag, JoinTag>>,
          Pipe |-> [pipe |-> "simple_steps_and_pipe"],
          Dates |-> [join |-> "simple_steps_and_pipe"],
          Concat |-> [concat |-> "simple_steps_and_dates"],
          Join |-> [join |-> "simple_steps_and_pipe"] ]

\* The schema init() returns: the four discriminated unions by name, and for
\* each combinator model the union its list items are validated against.
init(reg) ==
    LET union == simple_union(reg)
        union2 == union \o <<PipeTag, DatesTag>>
    IN  [ simple_steps |-> union,
          simple_steps_and_pipe |-> union \o <<PipeTag>>,
          simple_steps_and_dates |-> union2 \o <<DatesTag>>,
          input |-> union2 \o <<ConcatTag, JoinTag>>,
          Pipe |-> [pipe |-> "simple_steps"],
          Dates |-> [join |-> "simple_steps_and_pipe"],
          Concat |-> [concat |-> "simple_steps_and_dates"],
          Join |-> [join |-> "simple_steps_and_pipe"] ]

\* ---------------------------------------------------------- step validation

\* outcomes of a validator: "ok", "error" (a line error, collected) or "raise"
\* (an exception that is no validation error and aborts the parse)
Combine(a, b) ==
    IF a = "raise" \/ b = "raise" THEN "raise"
    ELSE IF a = "error" \/ b = "error" THEN "error"
    ELSE "ok"

RECURSIVE CombineAll(_)
CombineAll(rs) ==
    IF Len(rs) = 0 THEN "ok" ELSE Combine(Head(rs), CombineAll(Tail(rs)))

\* _input_discriminator: the first key of the mapping; IndexError on an empty one
_input_discriminator(obj) ==
    IF Len(obj) = 0 THEN "IndexError" ELSE obj[1].key

\* the variant a tagged union holds for a tag: a later choice replaces an earlier
RECURSIVE Choice(_, _)
Choice(union, tag) ==
    IF Len(union) = 0 THEN "no_such_tag"
    ELSE IF union[Len(union)].tag = tag THEN union[Len(union)].model
    ELSE Choice(SubSeq(union, 1, Len(union) - 1), tag)

HasKey(obj, k) == \E i \in 1..Len(obj) : obj[i].key = k

Field(obj, k) == obj[CHOOSE i \in 1..Len(obj) : obj[i].key = k]

\* the declared shape of a source or filter, or dict when none is declared
ValidateShape(model, entry) ==
    IF model = "dict"
    THEN IF entry.val \in {"map_ok", "map_other"} THEN "ok" ELSE "error"
    ELSE IF entry.val = "map_ok" THEN "ok" ELSE "error"

\* the Interval of a dates step (no discriminator: always Interval, extra forbidden)
ValidateStepInterval(entry) ==
    IF entry.val = "interval" THEN "ok" ELSE "error"

RECURSIVE ValidateUnion(_, _, _)
RECURSIVE ValidateList(_, _, _)
RECURSIVE ValidateItems(_, _, _)

\* a required field holding list[union]
ValidateListField(S, uname, obj, k) ==
    IF HasKey(obj, k) THEN ValidateList(S, uname, Field(obj, k)) ELSE "error"

\* the model of a variant, applied to the whole object; the step models descend
\* from Step or BaseModel and ignore the keys they do not declare
ValidateModel(S, model, tag, obj) ==
    CASE model \in {"dict", "declared"} -> ValidateShape(model, Field(obj, tag))
      [] model = "Pipe" -> ValidateListField(S, S.Pipe.pipe, obj, "pipe")
      [] model = "Dates" ->
            Combine(ValidateStepInterval(Field(obj, "dates")),
                    ValidateListField(S, S.Dates.join, obj, "join"))
      [] model = "Concat" -> ValidateListField(S, S.Concat.concat, obj, "concat")
      [] model = "Join" -> ValidateListField(S, S.Join.join, obj, "join")

\* every item is validated, the errors collected
ValidateItems(S, uname, items) ==
    IF Len(items) = 0 THEN "ok"
    ELSE Combine(ValidateUnion(S, uname, Head(items)), ValidateItems(S, uname, Tail(items)))

ValidateList(S, uname, entry) ==
    IF entry.val # "list" THEN "error" ELSE ValidateItems(S, uname, entry.items)

\* the variant a tagged union dispatches an object to
SelectVariant(union, obj) ==
    LET tag == _input_discriminator(obj) IN
    IF tag = "IndexError" THEN [tag |-> tag, model |-> "raise"]
    ELSE [tag |-> tag, model |-> Choice(union, tag)]

\* a tagged union with the callable discriminator: the exception of the
\* discriminator is not a validation error, a tag without choice is one
ValidateUnion(S, uname, obj) ==
    LET v == SelectVariant(S[uname], obj) IN
    CASE v.model = "raise" -> "raise"
      [] v.model = "no_such_tag" -> "error"
      [] OTHER -> ValidateModel(S, v.model, v.tag, obj)

\* -------------------------------------------------------- recipe validation

BAD == "BAD"

Keys(block) == {p[1] : p \in block}

Get(block, k, default) ==
    IF k \in Keys(block) THEN (CHOOSE p \in block : p[1] = k)[2] ELSE default

\* class GroupByEnum
GroupByEnum == {"monthly", "daily", "weekly", "MMDD"}

\* Interval.parse_frequency: frequency_to_timedelta(value); a ValueError of a
\* field validator is a validation error
parse_frequency(v) == IF v = BAD THEN "error" ELSE "ok"

\* the declared fields of the closed models
DatesFields == {"missing", "group_by"}
IntervalFields == DatesFields \cup {"start", "end", "frequency"}
DateListFields == DatesFields \cup {"values"}
OutputFields ==
    {"statistics_end", "chunking", "dtype", "flatten_grid", "order_by", "remapping", "statistics"}
BuildFields == {"group_by", "use_grib_paramid", "variable_naming"}
StatisticsFields == {"end", "allow_nans"}
CommonFields == {}
RecipeFields ==
    {"description", "name", "copyright", "licence", "attribution", "dates", "output",
     "build", "statistics", "common", "sources", "purpose", "aliases", "flatten_grid",
     "ensemble_dimension", "config_format_version", "status", "dataset_status"}

\* the value of one declared field
ValidateValue(k, v) ==
    CASE k = "frequency" -> parse_frequency(v)
      [] k = "group_by" -> IF v \in GroupByEnum THEN "ok" ELSE "error"
      [] OTHER -> IF v = BAD THEN "error" ELSE "ok"

\* a model with Config.extra = "forbid"
ValidateForbid(fields, block) ==
    IF \A p \in block : p[1] \in fields /\ ValidateValue(p[1], p[2]) = "ok"
    THEN "ok" ELSE "error"

\* a model without Config: undeclared keys are ignored
ValidateIgnore(fields, block) ==
    IF \A p \in block : p[1] \in fields => ValidateValue(p[1], p[2]) = "ok"
    THEN "ok" ELSE "error"

\* (mutant) a discriminator that looks for "start" before "values"
_dates_discriminator_StartFirst(block) ==
    IF "start" \in Keys(block) THEN "interval"
    ELSE IF "values" \in Keys(block) THEN "values" ELSE "interval"

\* _dates_discriminator
_dates_discriminator(block) ==
    IF "values" \in Keys(block) THEN "values" ELSE "interval"

\* Recipe.dates: the union of Interval (tag "interval") and DateList (tag "values")
DatesVariant(block) ==
    IF _dates_discriminator(block) = "values" THEN "DateList" ELSE "Interval"

ValidateDates(block) ==
    IF DatesVariant(block) = "DateList"
    THEN ValidateForbid(DateListFields, block)
    ELSE ValidateForbid(IntervalFields, block)

ValidateOutput(block) == ValidateForbid(OutputFields, block)
ValidateBuild(block) == ValidateForbid(BuildFields, block)
\* (mutant) Statistics without its Config
ValidateStatistics_Open(block) == ValidateIgnore(StatisticsFields, block)

ValidateStatistics(block) == ValidateForbid(StatisticsFields, block)
ValidateCommon(block) == ValidateIgnore(CommonFields, block)

\* the top-level keys of a document
TopKeys(doc) ==
    (IF doc.dates.present THEN {"dates"} ELSE {})
        \cup (IF doc.input.present THEN {"input"} ELSE {})
        \cup (IF doc.bogus THEN {"bogus"} ELSE {})

\* (mutant) Input with an "input" that may be left out
ValidateInputModel_InputOptional(S, doc) ==
    CombineAll(<<
        IF TopKeys(doc) \subseteq RecipeFields \cup {"input"} THEN "ok" ELSE "error",
        IF doc.dates.present THEN ValidateDates(doc.dates.block) ELSE "error",
        ValidateOutput(doc.output),
        ValidateBuild(doc.build),
        ValidateStatistics(doc.statistics),
        ValidateCommon(doc.common),
        IF doc.input.present THEN ValidateUnion(S, "input", doc.input.step) ELSE "ok" >>)

\* Input(Recipe): Recipe's fields and the required "input", extra forbidden
ValidateInputModel(S, doc) ==
    CombineAll(<<
        IF TopKeys(doc) \subseteq RecipeFields \cup {"input"} THEN "ok" ELSE "error",
        IF doc.dates.present THEN ValidateDates(doc.dates.block) ELSE "error",
        ValidateOutput(doc.output),
        ValidateBuild(doc.build),
        ValidateStatistics(doc.statistics),
        ValidateCommon(doc.common),
        IF doc.input.present THEN ValidateUnion(S, "input", doc.input.step) ELSE "error" >>)

\* recipe.model_dump(): the parsed document with the defaults filled in
model_dump(doc) ==
    [ dates |-> DatesVariant(doc.dates.block),
      licence |-> "unknown",
      attribution |-> "unknown",
      output |-> [ dtype |-> Get(doc.output, "dtype", "float32"),
                   flatten_grid |-> Get(doc.output, "flatten_grid", "True") ],
      build |-> [ group_by |-> Get(doc.build, "group_by", "monthly"),
                  use_grib_paramid |-> Get(doc.build, "use_grib_paramid", "False") ] ]

NoDump ==
    [ dates |-> "-", licence |-> "-", attribution |-> "-",
      output |-> [dtype |-> "-", flatten_grid |-> "-"],
      build |-> [group_by |-> "-", use_grib_paramid |-> "-"] ]

Line(kind) == [kind |-> kind, body |-> NoDump]

\* (mutant) validate that prints the dump whatever the flag
validate_out_AlwaysDump(r, doc, flag) ==
    CASE r = "ok" ->
            <<Line("Validation successful!"),
              [kind |-> "model_dump", body |-> model_dump(doc)]>>
                \o (IF flag THEN <<Line("model_json_schema")>> ELSE <<>>)
      [] r = "error" -> <<Line("Validation failed:"), Line("ValidationError")>>
      [] r = "raise" -> <<>>

\* what validate prints and returns for the outcome of model(**config)
validate_out(r, doc, flag) ==
    CASE r = "ok" ->
            <<Line("Validation successful!"),
              IF flag THEN Line("model_json_schema")
              ELSE [kind |-> "model_dump", body |-> model_dump(doc)]>>
      [] r = "error" -> <<Line("Validation failed:"), Line("ValidationError")>>
      [] r = "raise" -> <<>>

validate_return(r) ==
    CASE r = "ok" -> "True"
      [] r = "error" -> "False"
      [] r = "raise" -> "raised"

\* ------------------------------------------------- the documents enumerated

Entry(k, v, items) == [key |-> k, val |-> v, items |-> items]

\* a simple step {name: value}: a mapping of the declared shape, another
\* mapping, or a value that is no mapping
SimpleSteps ==
    { <<Entry("s1", v, <<>>)>> : v \in {"map_ok", "map_other", "scalar"} }
        \cup { <<Entry("s2", v, <<>>)>> : v \in {"map_other", "scalar"} }
        \cup { <<Entry("f1", "map_ok", <<>>)>> }

\* the objects without nested steps: the empty object, the simple steps and
\* the objects with two keys
Leaves ==
    {<<>>} \cup SimpleSteps
        \cup { <<Entry("s1", "map_ok", <<>>), Entry("f1", "map_ok", <<>>)>>,
               <<Entry("f1", "map_ok", <<>>), Entry("s1", "map_ok", <<>>)>> }

\* the step that fills a list after its first item
FillStep == <<Entry("f1", "map_ok", <<>>)>>

Fill(n) == [i \in 1..n |-> FillStep]

\* the lists of at most MaxLen items whose first item is drawn from S
Lists(S) ==
    {<<>>} \cup { <<s>> \o Fill(n) : s \in S, n \in 0..(MaxLen - 1) }

DatesEntry == Entry("dates", "interval", <<>>)

RECURSIVE Steps(_)
Steps(d) ==
    IF d = 0 THEN Leaves
    ELSE LET L == Lists(Steps(d - 1)) IN
         Leaves
            \cup { <<Entry(c, "list", l)>> : c \in {"pipe", "concat", "join"}, l \in L }
            \cup { <<DatesEntry, Entry("join", "list", l)>> : l \in L }

\* the further shapes tried at the top of "input" only
OddSteps ==
    { <<Entry("pipe", "scalar", <<>>)>>,
      <<DatesEntry>>,
      <<Entry("dates", "values", <<>>), Entry("join", "list", <<FillStep>>)>>,
      <<Entry("join", "list", <<FillStep>>), DatesEntry>>,
      <<Entry("zzz", "map_ok", <<>>)>>,
      <<Entry("pipe", "list", <<<<Entry("s1", "map_ok", <<>>)>>, FillStep>>)>>,
      <<Entry("pipe", "list", <<<<Entry("zzz", "map_ok", <<>>)>>, <<>>>>)>>,
      <<Entry("join", "list", <<<<Entry("s2", "map_other", <<>>)>>, <<>>>>)>> }

InputSteps == Steps(MaxDepth) \cup OddSteps

Present(x) == [present |-> TRUE, block |-> x]
Absent == [present |-> FALSE, block |-> {}]

MinimalDates ==
    {<<"start", "2020-01-01">>, <<"end", "2020-01-02">>, <<"frequency", "1h">>}

DatesBlocks ==
    { {},
      MinimalDates,
      {<<"start", "2020-01-01">>, <<"frequency", BAD>>},
      {<<"values", "2020-01-01">>},
      {<<"values", "2020-01-01">>, <<"start", "2020-01-01">>},
      {<<"values", "2020-01-01">>, <<"missing", "2020-01-01">>},
      {<<"start", "2020-01-01">>, <<"bogus", "x">>},
      {<<"values", "2020-01-01">>, <<"bogus", "x">>} }

OutputBlocks == { {}, {<<"dtype", "float64">>}, {<<"bogus", "x">>} }
BuildBlocks == { {}, {<<"group_by", "daily">>}, {<<"bogus", "x">>} }
StatisticsBlocks == { {}, {<<"bogus", "x">>} }
CommonBlocks == { {}, {<<"bogus", "x">>} }

NoStep == [present |-> FALSE, step |-> <<>>]
WithStep(s) == [present |-> TRUE, step |-> s]

Doc(b, d, o, bu, st, c, i) ==
    [bogus |-> b, dates |-> d, output |-> o, build |-> bu, statistics |-> st,
     common |-> c, input |-> i]

\* documents that vary the sections, over a few inputs
SectionDocs ==
    { Doc(b, d, o, bu, st, c, i) :
        b \in BOOLEAN,
        d \in {Absent} \cup {Present(x) : x \in DatesBlocks},
        o \in OutputBlocks, bu \in BuildBlocks, st \in StatisticsBlocks,
        c \in CommonBlocks,
        i \in {NoStep, WithStep(<<Entry("s1", "map_ok", <<>>)>>), WithStep(<<>>)} }

\* documents that vary the input, the sections being the minimal ones
InputDocs ==
    { Doc(FALSE, Present(MinimalDates), {}, {}, {}, {}, WithStep(s)) : s \in InputSteps }

Docs == SectionDocs \cup InputDocs

NoDoc == Doc(FALSE, Absent, {}, {}, {}, {}, NoStep)

\* the documents of the runs that keep the history of the calls
SeqDocs ==
    { Doc(FALSE, Present(MinimalDates), {}, {}, {}, {}, WithStep(s)) :
        s \in { <<Entry("s1", "map_ok", <<>>)>>,
                <<Entry("s2", "map_other", <<>>)>>,
                <<Entry("f1", "map_ok", <<>>)>>,
                <<Entry("pipe", "list", <<<<Entry("s1", "map_ok", <<>>)>>, FillStep>>)>> } }

\* ------------------------------------------------------------ the operations

NoVariant == [tag |-> "none", model |-> "none"]

Init ==
    /\ registry \in (SUBSET Plugins) \ {{}}
    /\ op = "idle"
    /\ config = NoDoc
    /\ schema_flag = FALSE
    /\ returned = "none"
    /\ out = <<>>
    /\ reads = <<>>
    /\ retdoc = NoDoc
    /\ dates_variant = "none"
    /\ input_variant = NoVariant
    /\ calls = <<>>

\* (mutant) the schema of the call before is served again
CurrentSchema_Cached ==
    IF calls # <<>> THEN init(calls[Len(calls)].reg) ELSE init(registry)

\* `model = init()`: the schema is built from the registry as it is at the call
CurrentSchema == init(registry)

\* validate(config, schema): init() reads the registry and builds the model,
\* model(**config) parses the document
ValidateCall(doc, flag) ==
    LET model == CurrentSchema
        r == ValidateInputModel(model, doc)
    IN  /\ op = "idle"
        /\ op' = "validate"
        /\ config' = doc
        /\ schema_flag' = flag
        /\ reads' = init_reads
        /\ returned' = validate_return(r)
        /\ out' = validate_out(r, doc, flag)
        /\ retdoc' = NoDoc
        /\ dates_variant' = IF doc.dates.present THEN DatesVariant(doc.dates.block) ELSE "none"
        /\ input_variant' =
                IF doc.input.present THEN SelectVariant(model.input, doc.input.step)
                ELSE NoVariant
        /\ UNCHANGED registry

Validate(doc, flag) == ValidateCall(doc, flag) /\ UNCHANGED calls

\* the same call, the registry it ran under and its result kept as history
\* (of the last two calls)
LastTwo(s) == IF Len(s) > 2 THEN Tail(s) ELSE s

ValidateLogged(doc, flag) ==
    /\ ValidateCall(doc, flag)
    /\ calls' = LastTwo(Append(calls, [reg |-> registry, doc |-> doc, returned |-> returned']))

\* (mutant) expand that reaches the statements after its return: the document
\* is parsed and dumped with the defaults filled in
expand_Normalised(doc) ==
    [doc EXCEPT !.output = {<<"dtype", Get(doc.output, "dtype", "float32")>>}
                              \cup {q \in doc.output : q[1] # "dtype"}]

\* expand(config): `return config`, the statements after it are never reached
expand(doc) == doc

Expand(doc) ==
    /\ op = "idle"
    /\ op' = "expand"
    /\ config' = doc
    /\ schema_flag' = FALSE
    /\ reads' = <<>>
    /\ returned' = "config"
    /\ out' = <<>>
    /\ retdoc' = expand(doc)
    /\ dates_variant' = "none"
    /\ input_variant' = NoVariant
    /\ UNCHANGED <<registry, calls>>

\* the caller takes the result of the call
Return ==
    /\ op # "idle"
    /\ op' = "idle"
    /\ config' = NoDoc
    /\ schema_flag' = FALSE
    /\ returned' = "none"
    /\ out' = <<>>
    /\ reads' = <<>>
    /\ retdoc' = NoDoc
    /\ dates_variant' = "none"
    /\ input_variant' = NoVariant
    /\ UNCHANGED <<registry, calls>>

\* a source or filter is added to the registry between two calls
Register(p) ==
    /\ op = "idle"
    /\ p \notin registry
    /\ registry' = registry \cup {p}
    /\ UNCHANGED <<op, config, schema_flag, returned, out, reads, retdoc,
                   dates_variant, input_variant, calls>>

\* a source or filter is removed from the registry between two calls; the
\* registry is never left empty
Unregister(p) ==
    /\ op = "idle"
    /\ p \in registry
    /\ registry \ {p} # {}
    /\ registry' = registry \ {p}
    /\ UNCHANGED <<op, config, schema_flag, returned, out, reads, retdoc,
                   dates_variant, input_variant, calls>>

Next ==
    \/ op = "idle" /\ \E doc \in Docs, flag \in BOOLEAN : Validate(doc, flag)
    \/ op = "idle" /\ \E doc \in Docs : Expand(doc)
    \/ Return
    \/ \E p \in Plugins : Register(p)
    \/ \E p \in Plugins : Unregister(p)

Spec == Init /\ [][Next]_vars

\* sequences of validate calls interleaved with changes of the registry
NextSeq ==
    \/ op = "idle" /\ \E doc \in SeqDocs, flag \in BOOLEAN : ValidateLogged(doc, flag)
    \/ Return
    \/ \E p \in Plugins : Register(p)
    \/ \E p \in Plugins : Unregister(p)

SpecSeq == Init /\ [][NextSeq]_vars

TypeOK ==
    /\ registry \subseteq Plugins
    /\ op \in {"idle", "validate", "expand"}
    /\ returned \in {"none", "True", "False", "raised", "config"}

\* ------------------------------------------------------------------ claims

Printed(kind) == \E i \in 1..Len(out) : out[i].kind = kind

RegisteredNames == {p.name : p \in registry}

S1Step == <<Entry("s1", "map_ok", <<>>)>>

\* the document that holds only the dates block with start, end and frequency
MinimalDoc == Doc(FALSE, Present(MinimalDates), {}, {}, {}, {}, NoStep)

\* C1: validate never raises: whatever the document, a call ends by returning
\* True or by returning False.
C1_ValidateNeverRaises ==
    op = "validate" => returned \in {"True", "False"}

\* C6: a step object with no key or with more than one key is rejected as a
\* validation failure: validate returns False, no variant is chosen from its
\* first key.
C6_ZeroOrManyKeysRejected ==
    (op = "validate" /\ config.input.present /\ Len(config.input.step) # 1)
        => (returned = "False" /\ input_variant.model \in {"raise", "no_such_tag"})

\* C5 as stated: the minimal document (dates only, no input) validates: validate
\* returns True and prints the dump with the defaults filled in.
C5_MinimalDocumentValidates ==
    (op = "validate" /\ config = MinimalDoc)
        => (returned = "True" /\ (~schema_flag => Printed("model_dump")))

\* C5 amended: the minimal document without "input" is rejected (validate
\* returns False, no dump is printed); with an "input" of one registered step
\* whose value has the declared shape it validates, and the dump printed has
\* output.dtype = "float32" and build.group_by = "monthly".
C5_MinimalDocumentNeedsInput ==
    /\ (op = "validate" /\ config = MinimalDoc)
            => (returned = "False" /\ ~Printed("model_dump"))
    /\ (op = "validate" /\ config = [MinimalDoc EXCEPT !.input = WithStep(S1Step)]
            /\ "s1" \in RegisteredNames)
            => /\ returned = "True"
               /\ ~schema_flag =>
                    /\ Len(out) = 2
                    /\ out[2].kind = "model_dump"
                    /\ out[2].body.output.dtype = "float32"
                    /\ out[2].body.build.group_by = "monthly"

C5_Witness ==
    /\ op = "validate"
    /\ config = MinimalDoc
    /\ ~schema_flag
    /\ returned = "False"
    /\ Printed("Validation failed:")

\* C7: for a valid config, schema=True prints the success message and then the
\* schema description, never the dump, and returns True; schema=False prints the
\* dump and not the schema; for an invalid config neither is printed.
C7_OutputMode ==
    op = "validate" =>
        /\ (returned = "True" /\ schema_flag) =>
                /\ Len(out) = 2
                /\ out[1].kind = "Validation successful!"
                /\ out[2].kind = "model_json_schema"
                /\ ~Printed("model_dump")
        /\ (returned = "True" /\ ~schema_flag) =>
                /\ Len(out) = 2
                /\ out[1].kind = "Validation successful!"
                /\ out[2].kind = "model_dump"
                /\ out[2].body = model_dump(config)
                /\ ~Printed("model_json_schema")
        /\ returned # "True" =>
                /\ ~Printed("model_dump")
                /\ ~Printed("model_json_schema")
        /\ (Printed("model_dump") \/ Printed("model_json_schema")) => returned = "True"

C7_Witness ==
    /\ op = "validate"
    /\ schema_flag
    /\ returned = "True"
    /\ Printed("model_json_schema")

\* C10: expand returns its argument unchanged for every config, valid or not: it
\* reads no registry, builds no schema, fills in no default, prints nothing.
C10_ExpandIsIdentity ==
    op = "expand" =>
        /\ retdoc = config
        /\ returned = "config"
        /\ reads = <<>>
        /\ out = <<>>
        /\ dates_variant = "none"
        /\ input_variant = NoVariant

C10_Witness ==
    /\ op = "expand"
    /\ config.bogus
    /\ ~config.input.present
    /\ config.output = {}
    /\ retdoc = config

\* the document whose sections are the minimal ones, with the input `step`
CleanDoc(block, step) == Doc(FALSE, Present(block), {}, {}, {}, {}, WithStep(step))

\* C2: the dates block of the recipe is parsed as DateList if and only if it
\* holds a "values" key, and as Interval otherwise, whatever other keys it
\* holds; a block without "values" and without unknown keys (the empty block
\* among them), whose values parse, is valid.
C2_DatesDiscriminator ==
    (op = "validate" /\ config.dates.present) =>
        LET block == config.dates.block IN
        /\ dates_variant = "DateList" <=> "values" \in Keys(block)
        /\ dates_variant = "Interval" <=> "values" \notin Keys(block)
        /\ ( /\ "values" \notin Keys(block)
             /\ Keys(block) \subseteq {"start", "end", "frequency", "missing", "group_by"}
             /\ \A q \in block : q[2] # BAD
             /\ config = CleanDoc(block, S1Step)
             /\ "s1" \in RegisteredNames ) => returned = "True"

C2_Witness ==
    /\ op = "validate"
    /\ config.dates.present
    /\ {"values", "start"} \subseteq Keys(config.dates.block)
    /\ dates_variant = "DateList"

Combinators == {"pipe", "dates", "concat", "join"}

Range(f) == {f[i] : i \in DOMAIN f}

\* the step objects a parse applies a union to: the object itself and the
\* items of the lists of the variant it selects
RECURSIVE Visited(_, _, _)
Visited(S, uname, obj) ==
    LET v == SelectVariant(S[uname], obj)
        Under(k, u) ==
            IF HasKey(obj, k) /\ Field(obj, k).val = "list"
            THEN UNION {Visited(S, u, it) : it \in Range(Field(obj, k).items)}
            ELSE {}
    IN  {[union |-> uname, obj |-> obj]}
            \cup CASE v.model = "Pipe" -> Under("pipe", S.Pipe.pipe)
                   [] v.model = "Dates" -> Under("join", S.Dates.join)
                   [] v.model = "Concat" -> Under("concat", S.Concat.concat)
                   [] v.model = "Join" -> Under("join", S.Join.join)
                   [] OTHER -> {}

\* a value has the shape declared for a name (any mapping when none is declared)
HasShape(v, name) ==
    LET p == CHOOSE q \in registry : q.name = name IN
    IF p.schema = "None" THEN v \in {"map_ok", "map_other"} ELSE v = "map_ok"

\* C3: a step object with exactly one key: when the key is a registered source
\* or filter, the variant of that name is selected and the value is checked
\* against its declared shape (any mapping when none is declared); when the key
\* is neither registered nor pipe, dates, concat or join, the union has no
\* variant for it, validation fails and validate returns False.
C3_SingleKeySelectsVariant ==
    (op = "validate" /\ config.input.present) =>
        /\ Len(config.input.step) = 1 =>
             LET e == config.input.step[1] IN
             /\ e.key \in RegisteredNames =>
                    /\ input_variant.tag = e.key
                    /\ input_variant.model \in {"dict", "declared"}
                    /\ input_variant.model = "dict"
                            <=> (CHOOSE q \in registry : q.name = e.key).schema = "None"
                    /\ ~HasShape(e.val, e.key) => returned = "False"
                    /\ (HasShape(e.val, e.key) /\ config = CleanDoc(MinimalDates, config.input.step))
                            => returned = "True"
             /\ e.key \notin RegisteredNames \cup Combinators =>
                    /\ input_variant.model = "no_such_tag"
                    /\ returned = "False"
                    /\ Printed("ValidationError")
        /\ \A n \in Visited(CurrentSchema, "input", config.input.step) :
             ( /\ Len(n.obj) = 1
               /\ n.obj[1].key \notin Combinators
               /\ (n.obj[1].key \notin RegisteredNames
                        \/ ~HasShape(n.obj[1].val, n.obj[1].key)) )
                => returned # "True"

C3_Witness ==
    /\ op = "validate"
    /\ config.input.present
    /\ Len(config.input.step) = 1
    /\ config.input.step[1].key = "s1"
    /\ config.input.step[1].val = "map_other"
    /\ "s1" \in RegisteredNames
    /\ returned = "False"

\* a key that is no declared field, at the top of the recipe or inside output,
\* build, dates or statistics
HasUnknownKey(doc) ==
    \/ doc.bogus
    \/ ~(Keys(doc.output) \subseteq OutputFields)
    \/ ~(Keys(doc.build) \subseteq BuildFields)
    \/ ~(Keys(doc.statistics) \subseteq StatisticsFields)
    \/ /\ doc.dates.present
       /\ ~(Keys(doc.dates.block) \subseteq
                (IF "values" \in Keys(doc.dates.block)
                 THEN {"values", "missing", "group_by"}
                 ELSE {"start", "end", "frequency", "missing", "group_by"}))

\* C4: a document with an undeclared key at the top level or inside output,
\* build, dates or statistics never validates; the keys of "common" never
\* change the result.
C4_ClosedAndOpenSchemas ==
    op = "validate" =>
        /\ HasUnknownKey(config) =>
                /\ returned # "True"
                /\ ~Printed("Validation successful!")
        /\ returned = validate_return(
                ValidateInputModel(CurrentSchema, [config EXCEPT !.common = {}]))
        /\ (config = [CleanDoc(MinimalDates, S1Step) EXCEPT !.common = config.common]
                /\ "s1" \in RegisteredNames) => returned = "True"

C4_Witness ==
    /\ op = "validate"
    /\ "bogus" \in Keys(config.statistics)
    /\ config.common # {}
    /\ config = [CleanDoc(MinimalDates, S1Step)
                    EXCEPT !.common = config.common, !.statistics = config.statistics]
    /\ "s1" \in RegisteredNames
    /\ returned = "False"

\* the registered names a step uses
RECURSIVE NamesUsed(_)
NamesUsed(obj) ==
    UNION { IF obj[i].key \in {"pipe", "concat", "join"}
            THEN UNION {NamesUsed(it) : it \in Range(obj[i].items)}
            ELSE IF obj[i].key = "dates" THEN {} ELSE {obj[i].key} : i \in 1..Len(obj) }

\* C8: every validate call builds its schema from the registry as it is at that
\* call, reading the sources and then the filters: a well-formed step is
\* accepted exactly when the names it uses are registered at the call, whatever
\* the registry was at the call before, and two calls with the same document
\* under the same registry return the same.
C8_SchemaBuiltAtEveryCall ==
    /\ op = "validate" =>
            /\ reads = <<"sources", "filters">>
            /\ calls # <<>>
            /\ calls[Len(calls)] = [reg |-> registry, doc |-> config, returned |-> returned]
    /\ \A i \in 1..Len(calls) :
            calls[i].returned =
                IF NamesUsed(calls[i].doc.input.step) \subseteq {p.name : p \in calls[i].reg}
                THEN "True" ELSE "False"
    /\ \A i, j \in 1..Len(calls) :
            (calls[i].reg = calls[j].reg /\ calls[i].doc = calls[j].doc)
                => calls[i].returned = calls[j].returned

C8_Witness ==
    /\ Len(calls) = 2
    /\ calls[1].doc = calls[2].doc
    /\ calls[1].returned = "False"
    /\ calls[2].returned = "True"
    /\ calls[1].reg \subseteq calls[2].reg

\* the well-formed steps, by kind
IsSimple(o) == Len(o) = 1 /\ o[1].key \in RegisteredNames /\ HasShape(o[1].val, o[1].key)

AllItems(e, P(_)) == e.val = "list" /\ \A i \in 1..Len(e.items) : P(e.items[i])

IsPipe(o) == Len(o) = 1 /\ o[1].key = "pipe" /\ AllItems(o[1], IsSimple)

IsSimpleOrPipe(o) == IsSimple(o) \/ IsPipe(o)

IsJoin(o) == Len(o) = 1 /\ o[1].key = "join" /\ AllItems(o[1], IsSimpleOrPipe)

IsDatesStep(o) ==
    Len(o) = 2 /\ o[1] = DatesEntry /\ o[2].key = "join" /\ AllItems(o[2], IsSimpleOrPipe)

IsSimplePipeOrDates(o) == IsSimple(o) \/ IsPipe(o) \/ IsDatesStep(o)

IsConcat(o) == Len(o) = 1 /\ o[1].key = "concat" /\ AllItems(o[1], IsSimplePipeOrDates)

\* the items the combinators are said to take: pipe a simple step or a pipe,
\* join a simple step or a dates step, concat a simple step, a dates step or a join
SaidPipeItem(o) == IsSimple(o) \/ IsPipe(o)
SaidJoinItem(o) == IsSimple(o) \/ IsDatesStep(o)
SaidConcatItem(o) == IsSimple(o) \/ IsDatesStep(o) \/ IsJoin(o)

OneKey(o, k) == Len(o) = 1 /\ o[1].key = k

\* an item of the list of the one-key combinator `o` starts with a key of K
HasItemKeyed(o, K) ==
    /\ o[1].val = "list"
    /\ \E i \in 1..Len(o[1].items) :
            Len(o[1].items[i]) > 0 /\ o[1].items[i][1].key \in K

====
